---- MODULE Spec2Model ----
(***************************************************************************)
(* A model of pydomoro's timer core: the Timer class (utils/timer.py), its *)
(* background watcher thread, the timer_state / focus_sessions tables      *)
(* (database/db_manager.py) and the Streamlit script that drives them      *)
(* (app.py).                                                               *)
(*                                                                         *)
(* Time is the wall clock in whole seconds.  The specifications share the  *)
(* variables:                                                              *)
(*   EngineSpec - the Timer class driven directly through its methods;     *)
(*   Spec       - the Streamlit script: button handlers, reruns, process   *)
(*                restarts and the watcher running timer_callback.         *)
(*   FormatSpec - get_formatted_time applied to a number of seconds.       *)
(***************************************************************************)
EXTENDS Integers, Sequences, FiniteSets, TLC

VARIABLES
    now,        \* datetime.now(WIB), in seconds
    timer,      \* the Timer object (st.session_state.timer)
    threads,    \* the watcher threads: thread id -> position in _check_target
    ss,         \* st.session_state (without the timer)
    timer_state,    \* the rows of table timer_state
    focus_sessions, \* the rows of table focus_sessions: per id, how often it was ended
    fg,         \* the position of the script run (the foreground control path)
    formatted_time, \* the argument and the result of a get_formatted_time call
    obs         \* observations of the run, read only by the properties

vars == <<now, timer, threads, ss, timer_state, focus_sessions, fg, formatted_time, obs>>

(***************************************************************************)
(* Bounds of the model                                                     *)
(***************************************************************************)
MaxTicks == 3       \* the clock stops after this many ticks
MaxDuration == 1    \* countdown durations are 1..MaxDuration minutes
MaxThreads == 2     \* watcher threads alive at once
MaxSessions == 2    \* rows of focus_sessions
MaxHours == 2       \* get_formatted_time is given up to this many hours
SubSecond == 4      \* fractions of a second: a float of seconds is n / SubSecond

(***************************************************************************)
(* Program constants                                                       *)
(***************************************************************************)
None == -1                  \* Python's None, where a time or a number is expected
SecondsPerMinute == 60      \* timedelta(minutes=...) / elapsed_seconds / 60
DefaultDuration == 25       \* st.session_state.duration_minutes of a new session

TickSeconds == SecondsPerMinute \div 2
Horizon == MaxTicks * TickSeconds
Durations == 1..MaxDuration
Tid == 1..MaxThreads

Max(a, b) == IF a >= b THEN a ELSE b

(***************************************************************************)
(* utils/timer.py: class Timer.  Every method is an operator from the      *)
(* object before the call to the object after it; `tid` is the thread the  *)
(* call creates when it creates one.                                       *)
(***************************************************************************)
Timer ==
    [running |-> FALSE, paused |-> FALSE, start_time |-> None,
     elapsed_time |-> 0, target_time |-> None, timer_thread |-> None,
     callback |-> FALSE, stop_event |-> FALSE]

\* `if duration_minutes:` - None and 0 are falsy
Truthy(x) == x # None /\ x # 0

\* start() creates a watcher thread
start_spawns(t, duration_minutes) == ~t.running /\ Truthy(duration_minutes)

start(t, duration_minutes, tid) ==
    IF t.running THEN t
    ELSE LET t1 == [t EXCEPT !.running = TRUE, !.paused = FALSE, !.start_time = now]
         IN  IF Truthy(duration_minutes)
             THEN [t1 EXCEPT !.target_time = t1.start_time + duration_minutes * SecondsPerMinute,
                             !.callback = TRUE,
                             !.stop_event = FALSE,
                             !.timer_thread = tid]
             ELSE t1

\* what start() returns: None from the bare `return` of line 23 and None from
\* falling off the end of the method
start_returns(t, duration_minutes) == IF t.running THEN None ELSE None

\* The datetime adapter of sqlite3 stores a datetime as ISO text and NULL for
\* None; a column is read back as that text.  Text is <<seconds>>, NULL is <<>>.
isoformat(time) == IF time = None THEN <<>> ELSE <<time>>
fromisoformat(text) == text[1]
isinstance_str(x) == Len(x) = 1

\* a text datetime.fromisoformat rejects with ValueError is <<Garbled>>
Garbled == -2
parses(text) == text[1] # Garbled

\* timer_state["start_time"] as restore_from_state reads it (lines 48-51)
parsed_start_time(timer_state_row) ==
    IF isinstance_str(timer_state_row.start_time)
    THEN fromisoformat(timer_state_row.start_time)
    ELSE None

\* restore_from_state() raises ValueError at line 49, after lines 41-43
restore_raises(timer_state_row) ==
    /\ ~timer_state_row.paused
    /\ isinstance_str(timer_state_row.start_time)
    /\ ~parses(timer_state_row.start_time)

\* (mutant) the gap since the row's start_time is not folded in
restore_remaining_without_gap(elapsed_time, start_time, duration_minutes) ==
    Max(0, duration_minutes * SecondsPerMinute - elapsed_time)

\* remaining_minutes of a restored, unpaused countdown, in seconds (lines 61-65)
restore_remaining(elapsed_time, start_time, duration_minutes) ==
    LET elapsed_seconds ==
            elapsed_time + (IF start_time # None THEN now - start_time ELSE 0)
    IN  Max(0, duration_minutes * SecondsPerMinute - elapsed_seconds)

\* the countdown a restore rebuilds is already over
restore_expired(row) ==
    /\ Truthy(row.duration_minutes) /\ ~row.paused /\ ~restore_raises(row)
    /\ restore_remaining(row.elapsed_time_seconds, parsed_start_time(row),
                         row.duration_minutes) = 0

\* (mutant) the watcher is created for a paused row as well
restore_spawns_when_paused(t, timer_state_row) ==
    Truthy(timer_state_row.duration_minutes) /\ ~restore_raises(timer_state_row)

\* restore_from_state() creates a watcher thread (lines 75-79)
restore_spawns(t, timer_state_row) ==
    /\ Truthy(timer_state_row.duration_minutes) /\ ~timer_state_row.paused
    /\ ~restore_raises(timer_state_row)

restore_from_state(t, timer_state_row, tid) ==
    LET t0 == [t EXCEPT !.running = TRUE,
                        !.paused = timer_state_row.paused,
                        !.elapsed_time = timer_state_row.elapsed_time_seconds]
        t1 == [t0 EXCEPT !.start_time = IF ~timer_state_row.paused
                                        THEN parsed_start_time(timer_state_row)
                                        ELSE now]
        duration_minutes == timer_state_row.duration_minutes
    IN  IF restore_raises(timer_state_row) THEN t0
        ELSE IF Truthy(duration_minutes)
        THEN IF ~t1.paused
             THEN [t1 EXCEPT !.target_time =
                                 now + restore_remaining(t1.elapsed_time, t1.start_time,
                                                         duration_minutes),
                             !.callback = TRUE,
                             !.stop_event = FALSE,
                             !.timer_thread = tid]
             ELSE [t1 EXCEPT !.target_time =
                                 now + Max(0, duration_minutes * SecondsPerMinute
                                              - t1.elapsed_time),
                             !.callback = TRUE]
        ELSE t1

\* (mutant) pause() without the test of `not self.paused`
pause_while_paused(t) ==
    IF t.running
    THEN [t EXCEPT !.paused = TRUE, !.elapsed_time = @ + (now - t.start_time)]
    ELSE t

\* with start_time None, line 94 raises TypeError after line 93
pause(t) ==
    IF t.running /\ ~t.paused
    THEN IF t.start_time = None
         THEN [t EXCEPT !.paused = TRUE]
         ELSE [t EXCEPT !.paused = TRUE, !.elapsed_time = @ + (now - t.start_time)]
    ELSE t

\* (mutant) resume() starts the count again
resume_from_zero(t) ==
    IF t.running /\ t.paused
    THEN [t EXCEPT !.paused = FALSE, !.start_time = now, !.elapsed_time = 0]
    ELSE t

resume(t) ==
    IF t.running /\ t.paused
    THEN [t EXCEPT !.paused = FALSE, !.start_time = now]
    ELSE t

\* with start_time None, line 106 raises TypeError before anything is assigned
stop_raises(t) == t.running /\ ~t.paused /\ t.start_time = None

\* stop() sets the stop event and joins the watcher
stop_joins(t) == t.running /\ ~stop_raises(t) /\ t.timer_thread # None

\* (mutant) the open segment is folded in whether or not the timer is running
stop_folding_always(t) ==
    LET t1 == [t EXCEPT !.elapsed_time =
                            IF ~t.paused /\ t.start_time # None
                            THEN @ + (now - t.start_time) ELSE @,
                        !.running = FALSE,
                        !.paused = FALSE]
    IN  IF t.running /\ t.timer_thread # None THEN [t1 EXCEPT !.stop_event = TRUE] ELSE t1

stop(t) ==
    IF stop_raises(t) THEN t
    ELSE IF t.running
    THEN LET t1 == [t EXCEPT !.elapsed_time =
                                 IF ~t.paused THEN @ + (now - t.start_time) ELSE @,
                             !.running = FALSE,
                             !.paused = FALSE]
         IN  IF t.timer_thread # None THEN [t1 EXCEPT !.stop_event = TRUE] ELSE t1
    ELSE t

\* reset(): stop(), elapsed_time = 0, and start() again if it was running
reset(t) ==
    LET t1 == [stop(t) EXCEPT !.elapsed_time = 0]
    IN  IF stop_raises(t) THEN t
        ELSE IF t.running THEN start(t1, None, None) ELSE t1

get_elapsed_time(t) ==
    IF ~t.running THEN t.elapsed_time
    ELSE IF t.paused THEN t.elapsed_time
    ELSE t.elapsed_time + (now - t.start_time)

get_remaining_time(t) ==
    IF t.target_time = None \/ ~t.running THEN 0
    ELSE LET remaining == IF t.paused
                          THEN (t.target_time - t.start_time) - t.elapsed_time
                          ELSE t.target_time - now
         IN  Max(0, remaining)

\* A number of seconds given to get_formatted_time is a float: n / SubSecond
\* is the number n.  The text "HH:MM:SS" is the record of its three fields.
FromSeconds(seconds) == seconds * SubSecond

\* (mutant) the seconds field is rounded to the nearest second
get_formatted_time_rounded(t, seconds) ==
    LET s == IF seconds = None
             THEN FromSeconds(IF t.target_time # None /\ t.running
                              THEN get_remaining_time(t) ELSE get_elapsed_time(t))
             ELSE seconds
    IN  [hours |-> s \div (3600 * SubSecond),
         minutes |-> (s % (3600 * SubSecond)) \div (60 * SubSecond),
         seconds |-> ((s % (60 * SubSecond)) + SubSecond \div 2) \div SubSecond]

\* hours = int(seconds // 3600), minutes = int((seconds % 3600) // 60),
\* seconds = int(seconds % 60)
get_formatted_time(t, seconds) ==
    LET s == IF seconds = None
             THEN FromSeconds(IF t.target_time # None /\ t.running
                              THEN get_remaining_time(t) ELSE get_elapsed_time(t))
             ELSE seconds
    IN  [hours |-> s \div (3600 * SubSecond),
         minutes |-> (s % (3600 * SubSecond)) \div (60 * SubSecond),
         seconds |-> (s % (60 * SubSecond)) \div SubSecond]

(***************************************************************************)
(* utils/timer.py: Timer._check_target, the watcher thread.  A thread is   *)
(* at "poll" (the loop head, after the sleep), at "fire" (the condition of *)
(* line 84 held and self.callback() is about to be called), inside the     *)
(* callback, or "free" (it never started or it has ended).  `orphan` marks *)
(* a thread whose Timer object the script has replaced by a new Timer():   *)
(* that object was stopped, so its stop event is set.                      *)
(***************************************************************************)
FreeThread == [pc |-> "free", orphan |-> FALSE, notify_failed |-> FALSE]
NewThread == [pc |-> "poll", orphan |-> FALSE, notify_failed |-> FALSE]

Alive(th) == {i \in Tid : th[i].pc # "free"}
HasFree(th) == \E i \in Tid : th[i].pc = "free"
NextTid(th) == CHOOSE i \in Tid : th[i].pc = "free" /\ \A j \in Tid : th[j].pc = "free" => i <= j

\* threading.Thread(target=self._check_target).start()
Spawn(th, tid) == [th EXCEPT ![tid] = NewThread]

\* `while not self.stop_event.is_set()`
stop_event_is_set(t, thread) == thread.orphan \/ t.stop_event

\* (mutant) the condition tests paused with the wrong sign
TargetReached_when_paused(t) == t.running /\ t.paused /\ now >= t.target_time

\* line 84: the completion condition
TargetReached(t) == t.running /\ ~t.paused /\ now >= t.target_time

\* timer_thread.join(timeout=1.0): a watcher that is polling sees the stop event
\* within one poll interval and ends before the join returns; one that is past
\* the condition of line 84 may outlast the timeout
Joined(t, th) ==
    IF stop_joins(t) /\ th[t.timer_thread].pc = "poll"
    THEN [th EXCEPT ![t.timer_thread] = FreeThread]
    ELSE th

\* (mutant) join() without a timeout returns when the watcher has ended
join_without_timeout(t, th) ==
    stop_joins(t) => th[t.timer_thread].pc \in {"free", "poll"}

\* timer_thread.join(timeout=1.0) returns, the watcher ended or not
join_returns(t, th) == TRUE

\* one pass of the loop that leaves the sleep: the event is set (the thread
\* ends), or the target is reached (the callback is called, if there is one)
WatcherPoll(i) ==
    /\ threads[i].pc = "poll"
    /\ \/ /\ stop_event_is_set(timer, threads[i])
          /\ threads' = [threads EXCEPT ![i] = FreeThread]
       \/ /\ ~stop_event_is_set(timer, threads[i])
          /\ TargetReached(timer)
          /\ threads' = [threads EXCEPT ![i] =
                            IF timer.callback /\ ~threads[i].orphan
                            THEN [@ EXCEPT !.pc = "fire"] ELSE FreeThread]
    /\ UNCHANGED <<now, timer, ss, timer_state, focus_sessions, fg, formatted_time, obs>>

(***************************************************************************)
(* Observations                                                            *)
(***************************************************************************)
NoObs ==
    [last |-> "none",       \* the last foreground operation ("_noop": the call
                            \* changed nothing; "stop_again": stop() when stopped)
     origin |-> "none",     \* how the current run began: "start" or "restore"
     D |-> None,            \* the target duration of the current run, in minutes
     t0 |-> None,           \* when the current run was started
     ran |-> 0,             \* the time spent running-unpaused since t0
     ret |-> None,          \* what the last stop() returned
     arg |-> <<>>,          \* the row the last restore_from_state was given
     calls |-> 0,           \* completion-handler calls in the current segment
     wfired |-> 0,          \* completion-handler calls made by timer.timer_thread
     clean |-> FALSE,       \* started by start() and no other operation since
     expired |-> "no",      \* "pending": a restore in a new process found the
                            \* countdown already over, and the user has not
                            \* paused, resumed, stopped or started since
     sid |-> None,          \* the session of that restore
     active |-> FALSE]      \* the Start button has started a timer that was
                            \* neither stopped nor completed since

Seconds(duration_minutes) ==
    IF Truthy(duration_minutes) THEN duration_minutes * SecondsPerMinute ELSE None

Op(o, name) == [o EXCEPT !.last = name, !.arg = <<>>, !.ret = None]

(***************************************************************************)
(* The clock                                                               *)
(***************************************************************************)
Tick ==
    /\ now < Horizon
    /\ now' = now + TickSeconds
    /\ obs' = [Op(obs, "none") EXCEPT
                  !.ran = IF obs.origin # "none" /\ timer.running /\ ~timer.paused
                          THEN @ + TickSeconds ELSE @]
    /\ UNCHANGED <<timer, threads, ss, timer_state, focus_sessions, fg, formatted_time>>

(***************************************************************************)
(* EngineSpec: the Timer class called directly.  The callback given to     *)
(* start() and restore_from_state() only counts its calls.                 *)
(***************************************************************************)
NoSessionState ==
    [mode |-> "timer", duration_minutes |-> DefaultDuration, session_id |-> None,
     timer_completed |-> FALSE, timer_restored |-> FALSE]

NoFormattedTime == [seconds |-> None, text |-> <<>>]

Init ==
    /\ now = 0
    /\ timer = Timer
    /\ threads = [i \in Tid |-> FreeThread]
    /\ ss = NoSessionState
    /\ timer_state = <<>>
    /\ focus_sessions = <<>>
    /\ fg = "rerun"
    /\ formatted_time = NoFormattedTime
    /\ obs = NoObs

AppUnchanged == UNCHANGED <<ss, timer_state, focus_sessions, fg, formatted_time>>

ECallStart(d) ==
    /\ (Truthy(d) /\ ~timer.running) => (HasFree(threads) /\ now + Seconds(d) <= Horizon)
    /\ LET tid == IF start_spawns(timer, d) THEN NextTid(threads) ELSE None
       IN  /\ timer' = start(timer, d, tid)
           /\ threads' = IF start_spawns(timer, d) THEN Spawn(threads, tid) ELSE threads
           /\ obs' = IF timer.running THEN Op(obs, "start_noop")
                     ELSE [Op(obs, "start") EXCEPT
                              !.origin = "start", !.D = IF Truthy(d) THEN d ELSE None, !.t0 = now,
                              !.ran = 0, !.ret = None, !.calls = 0,
                              !.wfired = IF Truthy(d) THEN 0 ELSE @,
                              !.clean = TRUE]
    /\ UNCHANGED now
    /\ AppUnchanged

ECallPause ==
    /\ timer' = pause(timer)
    /\ obs' = IF timer.running /\ ~timer.paused
              THEN [Op(obs, "pause") EXCEPT !.clean = FALSE]
              ELSE Op(obs, "pause_noop")
    /\ UNCHANGED <<now, threads>>
    /\ AppUnchanged

ECallResume ==
    /\ timer' = resume(timer)
    /\ obs' = IF timer.running /\ timer.paused
              THEN [Op(obs, "resume") EXCEPT !.clean = FALSE, !.calls = 0]
              ELSE Op(obs, "resume_noop")
    /\ UNCHANGED <<now, threads>>
    /\ AppUnchanged

ECallStop ==
    /\ join_returns(timer, threads)
    /\ timer' = stop(timer)
    /\ threads' = Joined(timer, threads)
    /\ obs' = [Op(obs, IF timer.running THEN "stop" ELSE "stop_again") EXCEPT
                  !.clean = FALSE,
                  !.ret = timer'.elapsed_time]
    /\ UNCHANGED now
    /\ AppUnchanged

ECallReset ==
    /\ join_returns(timer, threads)
    /\ timer' = reset(timer)
    /\ threads' = Joined(timer, threads)
    /\ obs' = IF timer.running
              THEN [Op(obs, "reset") EXCEPT
                       !.origin = "start", !.D = None, !.t0 = now, !.ran = 0,
                       !.ret = None, !.calls = 0, !.clean = FALSE]
              ELSE [Op(obs, "reset") EXCEPT !.clean = FALSE]
    /\ UNCHANGED now
    /\ AppUnchanged

\* the rows restore_from_state is given: what save_timer_state can have written
\* at or before now (a paused row's start_time is not read)
EngineRows ==
    [mode : {"timer"}, start_time : {isoformat(k * TickSeconds) : k \in 0..(now \div TickSeconds)},
     elapsed_time_seconds : {0, TickSeconds},
     duration_minutes : Durations \cup {None}, paused : {FALSE}, session_id : {None}]
    \cup
    [mode : {"timer"}, start_time : {isoformat(0)},
     elapsed_time_seconds : {0, TickSeconds},
     duration_minutes : Durations \cup {None}, paused : {TRUE}, session_id : {None}]

\* damaged rows: not paused, with a NULL or an unparsable start_time
MalformedRows ==
    [mode : {"timer"}, start_time : {isoformat(None), <<Garbled>>},
     elapsed_time_seconds : {0},
     duration_minutes : Durations \cup {None}, paused : {FALSE}, session_id : {None}]

\* the reconciler rebuilds an engine at process start: the object is new
ECallRestore(row) ==
    /\ timer = Timer
    /\ restore_spawns(timer, row) => HasFree(threads)
    /\ LET tid == IF restore_spawns(timer, row) THEN NextTid(threads) ELSE None
       IN  /\ timer' = restore_from_state(timer, row, tid)
           /\ threads' = IF restore_spawns(timer, row) THEN Spawn(threads, tid) ELSE threads
           /\ obs' = [Op(obs, "restore") EXCEPT
                         !.origin = "restore",
                         !.D = IF Truthy(row.duration_minutes) /\ ~restore_raises(row)
                               THEN row.duration_minutes ELSE None,
                         !.t0 = now, !.ran = 0, !.ret = None, !.arg = <<row>>,
                         !.calls = 0,
                         !.wfired = IF restore_spawns(timer, row) THEN 0 ELSE @,
                         !.clean = FALSE]
    /\ UNCHANGED now
    /\ AppUnchanged

\* self.callback() and the break that follows it
EWatcherFire(i) ==
    /\ threads[i].pc = "fire"
    /\ threads' = [threads EXCEPT ![i] = FreeThread]
    /\ obs' = [obs EXCEPT !.calls = @ + 1,
                          !.wfired = IF i = timer.timer_thread THEN @ + 1 ELSE @]
    /\ UNCHANGED <<now, timer>>
    /\ AppUnchanged

EngineNext ==
    \/ \E d \in Durations \cup {None} : ECallStart(d)
    \/ ECallPause
    \/ ECallResume
    \/ ECallStop
    \/ ECallReset
    \/ \E row \in EngineRows \cup MalformedRows : ECallRestore(row)
    \/ \E i \in Tid : WatcherPoll(i)
    \/ \E i \in Tid : EWatcherFire(i)
    \/ Tick

EngineSpec == Init /\ [][EngineNext]_vars

(***************************************************************************)
(* database/db_manager.py: the tables timer_state and focus_sessions       *)
(***************************************************************************)
\* sqlite3.connect(db_path) leaves check_same_thread at its default: the
\* connection and its cursor work in the thread that created them, the thread of
\* the script run (db = DBManager()); used from a watcher thread (1..MaxThreads)
\* every execute raises ProgrammingError and changes nothing
ScriptThread == 0

\* (mutant) the connection may be used from any thread
check_same_thread_off(caller) == TRUE

check_same_thread(caller) == caller = ScriptThread

\* sqlite3 stores a bool as an integer; get_timer_state reads it with bool()
sql_bool(b) == IF b THEN 1 ELSE 0
py_bool(i) == i # 0

\* (mutant) the row is written without the engine's paused flag and elapsed time
save_timer_state_as_started(t, mode, duration_minutes, session_id) ==
    << [mode |-> mode,
        start_time |-> isoformat(t.start_time),
        elapsed_time_seconds |-> 0,
        duration_minutes |-> duration_minutes,
        paused |-> sql_bool(FALSE),
        session_id |-> session_id] >>

\* the table after save_timer_state: DELETE, then INSERT of one row
save_timer_state(t, mode, duration_minutes, session_id) ==
    << [mode |-> mode,
        start_time |-> isoformat(t.start_time),
        elapsed_time_seconds |-> t.elapsed_time,
        duration_minutes |-> duration_minutes,
        paused |-> sql_bool(t.paused),
        session_id |-> session_id] >>

\* None (<<>>) or the dict of the first row (<<dict>>)
get_timer_state(table) ==
    IF table = <<>> THEN <<>>
    ELSE << [mode |-> table[1].mode,
             start_time |-> table[1].start_time,
             elapsed_time_seconds |-> table[1].elapsed_time_seconds,
             duration_minutes |-> table[1].duration_minutes,
             paused |-> py_bool(table[1].paused),
             session_id |-> table[1].session_id] >>

clear_timer_state(table) == <<>>

\* INSERT INTO focus_sessions; the new row's id is cursor.lastrowid
start_session(sessions) == Append(sessions, 0)
lastrowid(sessions) == Len(sessions)

\* UPDATE focus_sessions SET end_time = ..., completed = ... WHERE id = ?
\* (a row records how often it was ended: 0, 1, or 2 for "more than once")
end_session(sessions, session_id) ==
    [sessions EXCEPT ![session_id] = IF @ < 2 THEN @ + 1 ELSE @]

(***************************************************************************)
(* app.py: the Streamlit script.  A click starts a script run: the top of  *)
(* the script (restore_timer_state, line 102), then the handler of the     *)
(* button, which ends in st.rerun(); the rerun is a script run without a   *)
(* button (fg = "rerun").  AfterTop is the state restore_timer_state       *)
(* leaves.                                                                 *)
(***************************************************************************)
restore_applies == ~ss.timer_restored /\ get_timer_state(timer_state) # <<>>

TopEnabled ==
    (restore_applies /\ restore_spawns(timer, get_timer_state(timer_state)[1]))
        => HasFree(threads)

restore_timer_state ==
    IF ~restore_applies
    THEN [timer |-> timer, threads |-> threads, ss |-> ss, obs |-> obs]
    ELSE LET row == get_timer_state(timer_state)[1]
             tid == IF restore_spawns(timer, row) THEN NextTid(threads) ELSE None
         IN  [timer |-> restore_from_state(timer, row, tid),
              threads |-> IF restore_spawns(timer, row) THEN Spawn(threads, tid) ELSE threads,
              ss |-> [ss EXCEPT !.mode = row.mode,
                                !.duration_minutes = row.duration_minutes,
                                !.session_id = row.session_id,
                                !.timer_restored = TRUE],
              obs |-> [obs EXCEPT
                          !.expired = IF restore_expired(row) /\ ~timer.running
                                      THEN "pending" ELSE @,
                          !.sid = IF restore_expired(row) /\ ~timer.running
                                  THEN row.session_id ELSE @]]

AfterTop == restore_timer_state

\* the duration the handlers of the current mode pass on
mode_duration(s) == IF s.mode = "timer" THEN s.duration_minutes ELSE None

\* the Start button is disabled while the timer runs unpaused
start_enabled == ~(timer.running /\ ~timer.paused)
\* Pause/Resume and Stop are disabled unless the timer is running
running_enabled == timer.running

\* (mutant) the start handler does not look for a saved timer state
StartRejected_never(table) == FALSE

\* lines 417-420 / 525-528: a timer state in the database rejects the start
StartRejected(table) == get_timer_state(table) # <<>>

StartHandler ==
    /\ fg = "idle" /\ start_enabled /\ TopEnabled
    /\ LET T == AfterTop
           d == mode_duration(T.ss)
       IN  IF StartRejected(timer_state)
           THEN /\ timer' = T.timer /\ threads' = T.threads /\ ss' = T.ss
                /\ obs' = Op(T.obs, "start_rejected")
                /\ UNCHANGED <<timer_state, focus_sessions>>
           ELSE /\ Len(focus_sessions) < MaxSessions
                /\ start_spawns(T.timer, d) =>
                       (HasFree(T.threads) /\ now + Seconds(d) <= Horizon)
                /\ LET tid == IF start_spawns(T.timer, d) THEN NextTid(T.threads) ELSE None
                       sid == lastrowid(start_session(focus_sessions))
                   IN  /\ focus_sessions' = start_session(focus_sessions)
                       /\ ss' = [T.ss EXCEPT !.session_id = sid]
                       /\ timer' = start(T.timer, d, tid)
                       /\ threads' = IF start_spawns(T.timer, d)
                                     THEN Spawn(T.threads, tid) ELSE T.threads
                       /\ timer_state' = save_timer_state(timer', T.ss.mode, d, sid)
                       /\ obs' = [Op(T.obs, "start") EXCEPT
                                     !.calls = IF T.timer.running THEN @ ELSE 0,
                                     !.expired = "no", !.sid = None,
                                     !.active = TRUE]
    /\ fg' = "rerun"
    /\ UNCHANGED <<now, formatted_time>>

PauseResumeHandler ==
    /\ fg = "idle" /\ running_enabled /\ TopEnabled
    /\ LET T == AfterTop
       IN  /\ timer' = IF T.timer.paused THEN resume(T.timer) ELSE pause(T.timer)
           /\ timer_state' = save_timer_state(timer', T.ss.mode, mode_duration(T.ss),
                                              T.ss.session_id)
           /\ threads' = T.threads
           /\ ss' = T.ss
           /\ obs' = [Op(T.obs, IF T.timer.paused THEN "resume" ELSE "pause") EXCEPT
                         !.calls = IF T.timer.running /\ T.timer.paused THEN 0 ELSE @,
                         !.expired = "no", !.sid = None]
    /\ fg' = "rerun"
    /\ UNCHANGED <<now, focus_sessions, formatted_time>>

\* every thread of the Timer object the script drops
Orphaned(th) == [i \in Tid |-> IF th[i].pc = "free" THEN th[i] ELSE [th[i] EXCEPT !.orphan = TRUE]]

StopHandler ==
    /\ fg = "idle" /\ running_enabled /\ TopEnabled
    /\ LET T == AfterTop
       IN  /\ join_returns(T.timer, T.threads)
           /\ threads' = Orphaned(Joined(T.timer, T.threads))
           /\ focus_sessions' = IF Truthy(T.ss.session_id)
                                THEN end_session(focus_sessions, T.ss.session_id)
                                ELSE focus_sessions
           /\ ss' = [T.ss EXCEPT !.session_id = None]
           /\ timer' = Timer
           /\ timer_state' = clear_timer_state(timer_state)
           /\ obs' = [Op(T.obs, "stop") EXCEPT
                         !.ret = stop(T.timer).elapsed_time,
                         !.expired = "no", !.sid = None,
                         !.active = FALSE]
    /\ fg' = "rerun"
    /\ UNCHANGED <<now, formatted_time>>

\* the Timer / Stopwatch buttons (lines 346-357)
ModeHandler(m) ==
    /\ fg = "idle" /\ TopEnabled
    /\ ss.mode # m
    /\ LET T == AfterTop
       IN  /\ timer' = T.timer /\ threads' = T.threads
           /\ ss' = [T.ss EXCEPT !.mode = m]
           /\ obs' = Op(T.obs, "none")
    /\ fg' = "rerun"
    /\ UNCHANGED <<now, timer_state, focus_sessions, formatted_time>>

\* the duration slider of timer mode (lines 368-375)
SliderChange(d) ==
    /\ fg = "idle" /\ TopEnabled
    /\ ss.mode = "timer" /\ ss.duration_minutes # d
    /\ LET T == AfterTop
       IN  /\ timer' = T.timer /\ threads' = T.threads
           /\ ss' = [T.ss EXCEPT !.duration_minutes = d]
           /\ obs' = Op(T.obs, "none")
    /\ UNCHANGED <<now, timer_state, focus_sessions, fg, formatted_time>>

\* a script run without a button: the first run of a session, or st.rerun()
Rerun ==
    /\ fg = "rerun" /\ TopEnabled
    /\ LET T == AfterTop
       IN  /\ timer' = T.timer /\ threads' = T.threads /\ ss' = T.ss
           /\ obs' = Op(T.obs, "none")
    /\ fg' = "idle"
    /\ UNCHANGED <<now, timer_state, focus_sessions, formatted_time>>

\* The process ends and a new one starts: session state, the Timer and its
\* threads are gone; the database file stays.
Restart ==
    /\ fg = "idle"
    /\ timer_state # <<>>
    /\ timer' = Timer
    /\ threads' = [i \in Tid |-> FreeThread]
    /\ ss' = NoSessionState
    /\ fg' = "rerun"
    /\ obs' = [Op(obs, "none") EXCEPT !.calls = 0, !.expired = "no", !.sid = None]
    /\ UNCHANGED <<now, timer_state, focus_sessions, formatted_time>>

(***************************************************************************)
(* app.py: timer_callback, run by the watcher thread.                      *)
(***************************************************************************)
\* play_notification (lines 71-83) raises nothing: a failure to find or start
\* the sound is caught by `except Exception`, a failure of playsound itself
\* happens in the thread play_notification starts for it
play_notification_raises(notify_fails) == FALSE

\* lines 87-91: play_notification(), timer_completed = True, `if session_id:`
CallbackEnter(i) ==
    /\ threads[i].pc = "fire"
    /\ \E notify_fails \in BOOLEAN :
          IF play_notification_raises(notify_fails)
          THEN /\ threads' = [threads EXCEPT ![i] = FreeThread]
               /\ ss' = ss
          ELSE /\ ss' = [ss EXCEPT !.timer_completed = TRUE]
               /\ threads' = [threads EXCEPT
                                 ![i].pc = IF Truthy(ss.session_id)
                                           THEN "cb_end" ELSE "cb_clear",
                                 ![i].notify_failed = notify_fails]
    /\ obs' = [obs EXCEPT !.calls = IF threads[i].orphan THEN @ ELSE @ + 1,
                          !.active = IF threads[i].orphan THEN @ ELSE FALSE]
    /\ UNCHANGED <<now, timer, timer_state, focus_sessions, fg, formatted_time>>

\* lines 92-93: db.end_session(session_id); session_id = None.  The watcher is
\* not the thread of the connection: the SELECT of end_session raises
\* ProgrammingError, which ends the thread (so does end_session when no session
\* id is left).
CallbackEndSession(i) ==
    /\ threads[i].pc = "cb_end"
    /\ IF Truthy(ss.session_id) /\ check_same_thread(i)
       THEN /\ focus_sessions' = end_session(focus_sessions, ss.session_id)
            /\ ss' = [ss EXCEPT !.session_id = None]
            /\ threads' = [threads EXCEPT ![i].pc = "cb_clear"]
       ELSE /\ threads' = [threads EXCEPT ![i] = FreeThread]
            /\ UNCHANGED <<focus_sessions, ss>>
    /\ UNCHANGED <<now, timer, timer_state, fg, obs, formatted_time>>

\* line 96: db.clear_timer_state() (ProgrammingError in another thread than the
\* connection's), then the break of _check_target
CallbackClear(i) ==
    /\ threads[i].pc = "cb_clear"
    /\ timer_state' = IF check_same_thread(i)
                      THEN clear_timer_state(timer_state) ELSE timer_state
    /\ threads' = [threads EXCEPT ![i] = FreeThread]
    /\ UNCHANGED <<now, timer, ss, focus_sessions, fg, obs, formatted_time>>

Next ==
    \/ StartHandler
    \/ PauseResumeHandler
    \/ StopHandler
    \/ \E m \in {"timer", "stopwatch"} : ModeHandler(m)
    \/ \E d \in Durations : SliderChange(d)
    \/ Rerun
    \/ Restart
    \/ \E i \in Tid : WatcherPoll(i)
    \/ \E i \in Tid : CallbackEnter(i)
    \/ \E i \in Tid : CallbackEndSession(i)
    \/ \E i \in Tid : CallbackClear(i)
    \/ Tick

Spec == Init /\ [][Next]_vars

(***************************************************************************)
(* FormatSpec: get_formatted_time called with a number of seconds, as the  *)
(* display loops of the page call it (app.py, lines 472 and 577), or with  *)
(* None on a new Timer.                                                    *)
(***************************************************************************)
FormatInputs == 0..(MaxHours * 3600 * SubSecond)

FormatInit ==
    /\ now = 0
    /\ timer = Timer
    /\ threads = [i \in Tid |-> FreeThread]
    /\ ss = NoSessionState
    /\ timer_state = <<>>
    /\ focus_sessions = <<>>
    /\ fg = "rerun"
    /\ formatted_time \in [seconds : FormatInputs \cup {None}, text : {<<>>}]
    /\ obs = NoObs

CallFormat ==
    /\ formatted_time.text = <<>>
    /\ formatted_time' = [formatted_time EXCEPT
                             !.text = <<get_formatted_time(timer, formatted_time.seconds)>>]
    /\ UNCHANGED <<now, timer, threads, ss, timer_state, focus_sessions, fg, obs>>

FormatSpec == FormatInit /\ [][CallFormat]_vars

(***************************************************************************)
(* Scheduling: a watcher thread that can take a step eventually takes one, *)
(* and the clock advances.  What the user does is not fair.                *)
(***************************************************************************)
EngineWatcherFairness ==
    \A i \in Tid : WF_vars(WatcherPoll(i) \/ EWatcherFire(i))

AppWatcherFairness ==
    \A i \in Tid : WF_vars(WatcherPoll(i) \/ CallbackEnter(i)
                              \/ CallbackEndSession(i) \/ CallbackClear(i))

FairEngineSpec == EngineSpec /\ WF_vars(Tick) /\ EngineWatcherFairness

FairSpec == Spec /\ WF_vars(Tick) /\ WF_vars(Rerun) /\ AppWatcherFairness

(***************************************************************************)
(* Properties                                                              *)
(***************************************************************************)

\* restore_timer_state at the top of a script run that a click starts finds
\* nothing to restore: the run before it has restored what there was
TopIsNoopAtIdle == fg = "idle" => ~restore_applies

\* C1: the completion handler is invoked at most once per countdown start/resume
\* segment, across any sequence of start, pause, resume, stop and reruns.
C1_AtMostOncePerSegment == obs.calls <= 1

\* C2: a countdown started with start(d), d > 0, and never paused or stopped:
\* its watcher eventually invokes the completion handler, exactly once and not
\* before now >= target_time, and then ends.
C2_Undisturbed == obs.clean /\ obs.D # None
C2_Done == obs.wfired = 1 /\ threads[timer.timer_thread].pc = "free"
C2_WatcherFiresOnce ==
    /\ C2_Undisturbed ~> (~obs.clean \/ C2_Done)
    /\ [](C2_Undisturbed => /\ obs.wfired <= 1
                            /\ obs.wfired = 1 => now >= timer.target_time)
C2_Witness == C2_Undisturbed /\ C2_Done

\* C3: stop() returns the sum of the running segments since start(), whatever
\* the time spent paused.
C3_StopReturnsRunningTime ==
    (obs.last = "stop" /\ obs.origin = "start") => obs.ret = obs.ran

\* C4: immediately after resume() of a paused countdown, target_time is
\* now + (target duration - elapsed_time), and get_remaining_time() is the
\* target duration less elapsed_time.
C4_ResumeRecomputesTarget ==
    (obs.last = "resume" /\ obs.D # None) =>
        /\ timer.target_time = now + (Seconds(obs.D) - timer.elapsed_time)
        /\ get_remaining_time(timer) = Max(0, Seconds(obs.D) - timer.elapsed_time)

\* C5: restoring an unpaused countdown row (elapsed e, duration D) at a time g
\* after the row's start_time gives get_elapsed_time() = e + g and
\* get_remaining_time() = max(0, D - e - g).
C5_UnpausedCountdownRow ==
    /\ obs.last = "restore" /\ obs.arg # <<>>
    /\ ~obs.arg[1].paused /\ Truthy(obs.arg[1].duration_minutes)
    /\ isinstance_str(obs.arg[1].start_time) /\ parses(obs.arg[1].start_time)
C5_Gap == now - fromisoformat(obs.arg[1].start_time)
C5_RestoreFoldsGap ==
    C5_UnpausedCountdownRow =>
        LET e == obs.arg[1].elapsed_time_seconds
            D == Seconds(obs.arg[1].duration_minutes)
        IN  /\ get_elapsed_time(timer) = e + C5_Gap
            /\ get_remaining_time(timer) = Max(0, D - e - C5_Gap)
C5_Witness ==
    /\ C5_UnpausedCountdownRow
    /\ C5_Gap > 0
    /\ obs.arg[1].elapsed_time_seconds > 0
    /\ get_remaining_time(timer) = 0

\* C6: after a restore of an unpaused countdown row whose elapsed time plus gap
\* reaches the duration, the completion handler fires, the session is ended and
\* the timer state is cleared (unless the user pauses or stops first, or the
\* process ends again); no time has to pass for it: the watcher's completion
\* condition holds from the restore on, and when the handler's run ends it has
\* done all three.
C6_Completed ==
    /\ ss.timer_completed
    /\ timer_state = <<>>
    /\ Truthy(obs.sid) => focus_sessions[obs.sid] >= 1
C6_ExpiredRestoreCompletes ==
    /\ (obs.expired = "pending") ~> (obs.expired # "pending" \/ C6_Completed)
    /\ [](obs.expired = "pending" => TargetReached(timer))
    /\ [][\A i \in Tid :
            (/\ obs.expired = "pending" /\ ~threads[i].orphan
             /\ CallbackEndSession(i) \/ CallbackClear(i)
             /\ threads'[i].pc = "free")
                => C6_Completed']_vars

\* C7: for every running or paused engine, saving the timer state and restoring
\* it at the same instant gives an engine equal in status, get_elapsed_time()
\* and get_remaining_time().  (Stated of the states in which the stored row is
\* the one save_timer_state writes for the engine as it is.)
C7_Saved == save_timer_state(timer, ss.mode, mode_duration(ss), ss.session_id)
C7_Restored == restore_from_state(Timer, get_timer_state(C7_Saved)[1], None)
C7_SnapshotRoundTrip ==
    (timer.running /\ timer_state = C7_Saved) =>
        /\ C7_Restored.running = timer.running
        /\ C7_Restored.paused = timer.paused
        /\ get_elapsed_time(C7_Restored) = get_elapsed_time(timer)
        /\ get_remaining_time(C7_Restored) = get_remaining_time(timer)

\* C8: a start attempted while the timer_state table holds a row is rejected:
\* no session is created, the row is not overwritten, the engine is unchanged.
C8_StartRejectedWhenActive ==
    [][(StartHandler /\ timer_state # <<>>) =>
        /\ obs'.last = "start_rejected"
        /\ focus_sessions' = focus_sessions
        /\ timer_state' = timer_state
        /\ timer' = timer
        /\ threads' = threads
        /\ ss' = ss]_vars
C8_Witness ==
    /\ fg = "rerun" /\ obs.last = "start_rejected"
    /\ timer_state # <<>> /\ timer.paused

\* C9: a stop() that directly follows a stop() returns the same value and
\* changes nothing of the engine.
C9_StopIdempotent ==
    [][(ECallStop /\ obs.last \in {"stop", "stop_again"}) =>
        /\ obs'.ret = obs.ret
        /\ timer' = timer
        /\ threads' = threads]_vars
C9_Witness == obs.last = "stop_again" /\ obs.ret > 0

\* C10: start() from Idle or Stopped sets elapsed_time to 0, so stop() after
\* start(d) returns a value between 0 and the wall time since that start.
C10_StartResetsElapsed ==
    /\ (obs.last = "start") => timer.elapsed_time = 0
    /\ (obs.last = "stop" /\ obs.origin = "start") =>
           (0 <= obs.ret /\ obs.ret <= now - obs.t0)

\* C11: end_session is called exactly once for the session of every timer that
\* is stopped or completes: no session is ever ended twice, the completion
\* callback of the engine's watcher ends the session it finds, and so does the
\* stop handler.
C11_EndSessionExactlyOnce ==
    /\ [](\A s \in DOMAIN focus_sessions : focus_sessions[s] <= 1)
    /\ [][\A i \in Tid :
            (CallbackEndSession(i) /\ ~threads[i].orphan /\ Truthy(ss.session_id))
                => focus_sessions'[ss.session_id] = 1]_vars
    /\ [][(StopHandler /\ Truthy(ss.session_id))
                => focus_sessions'[ss.session_id] = 1]_vars

\* C12: at every reachable state at most one watcher thread is alive for the
\* engine (the threads of a Timer object the script has dropped are not counted).
C12_AtMostOneWatcher ==
    Cardinality({i \in Tid : threads[i].pc # "free" /\ ~threads[i].orphan}) <= 1

\* C13: get_remaining_time() is max(0, target duration - elapsed_time) in every
\* paused countdown state, max(0, target_time - now) while a countdown runs
\* unpaused, and 0 for a stopwatch.
C13_RemainingByStatus ==
    (obs.origin # "none" /\ timer.running) =>
        IF obs.D = None THEN get_remaining_time(timer) = 0
        ELSE IF timer.paused
             THEN get_remaining_time(timer) = Max(0, Seconds(obs.D) - timer.elapsed_time)
             ELSE get_remaining_time(timer) = Max(0, timer.target_time - now)

\* C14: start() on a running or paused engine returns an error to the caller (a
\* value other than the None of a successful start) and leaves every field of
\* the engine and its watcher unchanged.
C14_StartWhileActiveFails ==
    [][\A d \in Durations \cup {None} :
          (ECallStart(d) /\ timer.running) =>
              /\ start_returns(timer, d) # None
              /\ timer' = timer
              /\ threads' = threads]_vars

\* C15: pause() on an engine that is already paused, or not running, changes
\* nothing: elapsed_time and every other field of the engine stay as they were.
C15_PauseNoDoubleCount ==
    [][(ECallPause /\ (timer.paused \/ ~timer.running)) =>
          /\ timer' = timer
          /\ threads' = threads]_vars
C15_Witness ==
    /\ obs.last = "pause_noop"
    /\ timer.running /\ timer.paused /\ timer.elapsed_time > 0
    /\ now > timer.start_time

\* C16: a restore from a malformed row (not paused, with a NULL or an
\* unparsable start_time) raises nothing and leaves the engine idle, so that a
\* fresh start can follow.
C16_Malformed ==
    /\ obs.last = "restore" /\ obs.arg # <<>>
    /\ ~obs.arg[1].paused
    /\ ~isinstance_str(obs.arg[1].start_time) \/ ~parses(obs.arg[1].start_time)
C16_CorruptSnapshotIsIdle ==
    C16_Malformed => (~restore_raises(obs.arg[1]) /\ timer = Timer)

\* C17: a failure of the notification does not abort the completion sequence:
\* the handler goes on, ends the session it finds and clears the timer state.
C17_NotifyFailureDoesNotAbort ==
    /\ [][\A i \in Tid : CallbackEnter(i) => threads'[i].pc \in {"cb_end", "cb_clear"}]_vars
    /\ [][\A i \in Tid :
            (CallbackEndSession(i) /\ threads[i].notify_failed /\ ~threads[i].orphan
                /\ Truthy(ss.session_id))
                => /\ focus_sessions'[ss.session_id] >= 1
                   /\ threads'[i].pc = "cb_clear"]_vars
    /\ [][\A i \in Tid :
            (CallbackClear(i) /\ threads[i].notify_failed /\ ~threads[i].orphan)
                => timer_state' = <<>>]_vars

\* C18: whenever no completion callback is under way, table timer_state holds
\* a row iff a timer has been started and has neither been stopped nor
\* completed since.
C18_SnapshotIffActive ==
    (\A i \in Tid : threads[i].pc \notin {"cb_end", "cb_clear"}) =>
        (timer_state # <<>> <=> obs.active)

\* C19: every row written to timer_state records the engine's paused flag, and a
\* row written while the engine is paused has a NULL start_time.
C19_PausedSnapshotHasNoStartTime ==
    [][(timer_state' # timer_state /\ timer_state' # <<>>) =>
          /\ py_bool(timer_state'[1].paused) = timer'.paused
          /\ timer'.paused => timer_state'[1].start_time = isoformat(None)]_vars

\* C20: the watcher calls the completion handler only while the engine is
\* running and not paused: never after pause() or stop() has returned and before
\* a later resume() or start().
C20_NoFireAfterPauseOrStop ==
    [][\A i \in Tid : EWatcherFire(i) => (timer.running /\ ~timer.paused)]_vars

\* C21: for a countdown started by start(d), once its watcher has invoked the
\* completion handler, a pause() or stop() still takes effect, the handler is
\* not invoked again, and stop() returns the time of the running segments since
\* the start, no more.
C21_Fired == obs.origin = "start" /\ obs.D # None /\ obs.wfired >= 1
C21_PauseStopSucceed ==
    /\ [][(ECallPause /\ C21_Fired /\ timer.running /\ ~timer.paused)
              => (timer'.paused /\ get_elapsed_time(timer') = get_elapsed_time(timer))]_vars
    /\ [][(ECallStop /\ C21_Fired /\ timer.running) => ~timer'.running]_vars
C21_NoSecondCall == [][\A i \in Tid : (EWatcherFire(i) /\ C21_Fired) => FALSE]_vars
C21_CountedOnce ==
    [][(ECallStop /\ C21_Fired /\ timer.running) => obs'.ret = obs.ran]_vars
C21_AfterCompletion == C21_PauseStopSucceed /\ C21_NoSecondCall /\ C21_CountedOnce

\* C22: resume() of a paused countdown that has not completed, one rebuilt from
\* a paused row included, leaves a live watcher for the engine, and the
\* completion handler is eventually invoked unless a pause or a stop intervenes.
C22_Resumed == obs.last = "resume" /\ obs.D # None /\ obs.wfired = 0
C22_LiveWatcher ==
    timer.timer_thread # None /\ threads[timer.timer_thread].pc # "free"
C22_ResumeLeavesWatcher ==
    /\ C22_Resumed ~> (obs.wfired >= 1 \/ timer.paused \/ ~timer.running \/ obs.D = None)
    /\ [](C22_Resumed => C22_LiveWatcher)

\* C23: restoring a paused row gives a paused engine whose elapsed time is the
\* row's elapsed_time_seconds, whatever the time since the row was saved, and
\* starts no watcher thread.
C23_PausedRow == obs.last = "restore" /\ obs.arg # <<>> /\ obs.arg[1].paused
C23_PausedRestore ==
    C23_PausedRow =>
        /\ timer.running /\ timer.paused
        /\ timer.elapsed_time = obs.arg[1].elapsed_time_seconds
        /\ get_elapsed_time(timer) = obs.arg[1].elapsed_time_seconds
        /\ timer.timer_thread = None
        /\ \A i \in Tid : threads[i].pc = "free"
C23_Witness ==
    /\ C23_PausedRow
    /\ Truthy(obs.arg[1].duration_minutes)
    /\ obs.arg[1].elapsed_time_seconds > 0
    /\ now - fromisoformat(obs.arg[1].start_time) >= SecondsPerMinute

\* C24: whenever the engine is running and the timer_state table holds its row,
\* an engine restored from that row now (after whatever time the process was
\* down) reports the same get_elapsed_time() and get_remaining_time() as the
\* engine that kept running, and has reached its target iff that one has.
C24_Restored == restore_from_state(Timer, get_timer_state(timer_state)[1], None)
C24_DowntimeEquivalence ==
    (timer.running /\ timer_state # <<>>) =>
        /\ get_elapsed_time(C24_Restored) = get_elapsed_time(timer)
        /\ get_remaining_time(C24_Restored) = get_remaining_time(timer)
        /\ TargetReached(C24_Restored) <=> TargetReached(timer)

\* C25: while the engine runs, it has a target_time iff the run is a countdown
\* (it was started or restored with a duration), and get_remaining_time() of a
\* stopwatch run is 0.
C25_TargetIffCountdown ==
    (obs.origin # "none" /\ timer.running) =>
        /\ timer.target_time # None <=> obs.D # None
        /\ obs.D = None => get_remaining_time(timer) = 0

\* C26: elapsed_time never decreases while a timer lives: not in a step that
\* leaves the engine running (pause, resume, the restore of a rerun on the
\* running engine), and the value stop() returns is not below it.
C26_ElapsedMonotone ==
    /\ [][(timer.running /\ timer'.running) => timer'.elapsed_time >= timer.elapsed_time]_vars
    /\ [][StopHandler => obs'.ret >= timer.elapsed_time]_vars
C26_Witness ==
    /\ Cardinality({i \in Tid : threads[i].pc # "free" /\ ~threads[i].orphan}) = 2
    /\ obs.last = "resume" /\ timer.elapsed_time > 0

\* C27: every handler that changes the engine persists it: after an accepted
\* start, a pause or a resume handler the timer_state row holds the engine's
\* paused flag, elapsed_time and start_time; after the stop handler the table
\* is empty.
C27_RowIsEngine(table, t) ==
    /\ table # <<>>
    /\ get_timer_state(table)[1].paused = t.paused
    /\ get_timer_state(table)[1].elapsed_time_seconds = t.elapsed_time
    /\ parsed_start_time(get_timer_state(table)[1]) = t.start_time
C27_HandlersPersist ==
    /\ [][((StartHandler /\ ~StartRejected(timer_state)) \/ PauseResumeHandler)
              => C27_RowIsEngine(timer_state', timer')]_vars
    /\ [][StopHandler => timer_state' = <<>>]_vars
C27_Witness ==
    /\ obs.last = "resume" /\ fg = "rerun"
    /\ C27_RowIsEngine(timer_state, timer)
    /\ timer.elapsed_time > 0 /\ timer.start_time > 0


\* C28: for every non-negative number of seconds s, the fields of
\* get_formatted_time(s) satisfy hours*3600 + minutes*60 + seconds = floor(s),
\* with minutes and seconds in 0..59.
C28_Formatted == formatted_time.text # <<>> /\ formatted_time.seconds # None
C28_FormatFloors ==
    C28_Formatted =>
        LET text == formatted_time.text[1]
        IN  /\ text.hours * 3600 + text.minutes * 60 + text.seconds
                   = formatted_time.seconds \div SubSecond
            /\ 0 <= text.minutes /\ text.minutes < 60
            /\ 0 <= text.seconds /\ text.seconds < 60
C28_Witness ==
    /\ C28_Formatted
    /\ formatted_time.seconds % SubSecond > SubSecond \div 2
    /\ formatted_time.text[1].hours >= 1
    /\ formatted_time.text[1].minutes >= 1
    /\ formatted_time.text[1].seconds >= 1


\* C29: stop() always returns: in every state, the watcher polling, past its
\* completion condition or inside the handler, a call of stop() completes, and
\* a watcher that is past the condition is left behind, still alive (a stop()
\* that ends with the TypeError of line 106 has ended too, and joins nothing).
C29_WatcherBusy ==
    timer.running /\ timer.timer_thread # None /\ threads[timer.timer_thread].pc = "fire"
C30_NoPrematureCompletion ==
    [][\A i \in Tid :
          (EWatcherFire(i) /\ obs.D # None) => get_elapsed_time(timer) >= Seconds(obs.D)]_vars

\* C31: once the watcher of a countdown has called the completion handler, the
\* engine is not running any more: get_elapsed_time() stays where it is as the
\* clock advances, and a start(d) begins a new countdown.
C31_Completed == obs.D # None /\ obs.wfired >= 1
C31_InactiveAfterCompletion ==
    /\ [](C31_Completed => ~timer.running)
    /\ [][(Tick /\ C31_Completed) => get_elapsed_time(timer)' = get_elapsed_time(timer)]_vars
    /\ [][\A d \in Durations :
            (ECallStart(d) /\ C31_Completed)
                => (obs'.last = "start" /\ timer'.target_time = now + Seconds(d))]_vars

\* C32: restore_timer_state applies the stored row only to an engine that is
\* idle: no script run calls restore_from_state on an engine that is running.
C32_ScriptRun ==
    \/ Rerun \/ StartHandler \/ PauseResumeHandler \/ StopHandler
    \/ \E m \in {"timer", "stopwatch"} : ModeHandler(m)
    \/ \E d \in Durations : SliderChange(d)
C32_RestoreOnlyWhenIdle ==
    [][(C32_ScriptRun /\ restore_applies) => ~timer.running]_vars

====
